---- MODULE Spec2Model ----
(***************************************************************************)
(* A state-machine model of the nxus feedreader module (class FeedReader): *)
(* the feed and handler registries, the fetch / fetchFeed / processItem    *)
(* stages behind _callOrQueue, the per-fetch parser context built by       *)
(* _createParser, and the feedreader-feedread watermark store.             *)
(*                                                                         *)
(* Timestamps are the integers 1..MaxDate; 0 stands for a JavaScript null  *)
(* date (null compares as 0 and is falsy) and for an undefined lastRead.   *)
(* External collaborators (request, FeedParser, the storage model, the     *)
(* worker queue) appear as nondeterministic environment steps.             *)
(*                                                                         *)
(* Spec is the whole machine.  Its state space is the product of the       *)
(* registries and the pipelines, so the properties are checked under       *)
(* specifications that each take the same actions from a reachable state:  *)
(*   SpecRegistry  the registries, fetch and _fetch, up to each pipeline's  *)
(*                 start;                                                  *)
(*   SpecFetch     two registered feeds, queueing disabled, no handlers:    *)
(*                 up to MaxFetches calls of fetch and their pipelines;    *)
(*   SpecItems     two registered feeds, one fetch(ident), process() calls  *)
(*                 and the handlers of the items, inline and queued;       *)
(*   SpecFeeds     the registries alone;                                   *)
(*   SpecTimer     the launch / stop hooks and the interval timer;         *)
(*   SpecSettle    one pipeline with read tracking, under the fairness     *)
(*                 that every event it waits for arrives.                  *)
(***************************************************************************)
EXTENDS Integers, Sequences, FiniteSets, TLC

\* ---- bounds of the model ----
MaxDate == 2        \* timestamps are 1..MaxDate, 0 is a null date
MaxItems == 2       \* items one fetch's parser emits
MaxPipes == 2       \* single-feed pipelines started in one behaviour
MaxFetches == 2     \* calls of fetch()
MaxHandlers == 2    \* calls of process()
MaxRegs == 2        \* calls of feed() / unfeed()

\* ---- value domains ----
Null == "<null>"                  \* JavaScript null / undefined as an argument
Idents == {"a", "null"}           \* feed identifiers (any string, "null" included)
Urls == {"u1", "u2"}
Guids == {"g1"}
Dates == 0..MaxDate
Items == [guid : Guids, date : 1..MaxDate]
Undefined == [undefined |-> TRUE] \* the value of this._feeds[ident] for a missing key
NoRecord == [absent |-> TRUE]     \* findOne() finding no record

VARIABLES
  config,       \* this.config: enableQueues, enableReadTracking, feeds
  loaded,       \* TRUE once the application's load event has fired
  timer,        \* the scheduler: the launch / stop hooks and this._intervalId
  feeds,        \* this._feeds: ident -> descriptor (a partial function)
  processors,   \* this._processors: property key -> list of handlers
  regLog,       \* history of process() calls: <<ident argument, handler>>
  nregs,        \* number of feed() / unfeed() calls made
  workers,      \* TRUE once _setupQueues registered the three workers
  tasks,        \* the worker queue's submitted jobs, one list per job name
  feedread,     \* the feedreader-feedread store: url -> record
  pipes,        \* the single-feed pipelines (_fetchFeed + _createParser closures)
  stages,       \* the _processItem invocations, in the order they began
  calls,        \* history of fetch() calls and how each returned
  uncaught      \* TRUE once an exception escaped an event handler (process ends)

vars == <<config, loaded, timer, feeds, processors, regLog, nregs, workers, tasks,
          feedread, pipes, stages, calls, uncaught>>

PipeIds == 1..MaxPipes

IdlePipe == [phase |-> "idle", promise |-> "none", err |-> "none",
             url |-> "-", ident |-> "-", call |-> 0,
             readTracking |-> FALSE, lastRead |-> 0, meta |-> -1, skip |-> FALSE,
             emitted |-> <<>>, dispatched |-> <<>>, wrote |-> FALSE,
             threw |-> FALSE, status |-> 0, found |-> "unknown", prior |-> {}]

\* The feeds an application may configure under feed_reader.feeds.
NoFeeds == [k \in {} |-> "u1"]
ConfigFeeds == { NoFeeds, [k \in {"a"} |-> "u1"] }

\* config.interval, in seconds: 0 (the default) is no polling
Intervals == {0, 1}

\* this._intervalId = null (0; a timer's id is truthy); neither hook has run;
\* fetches counts the calls of fetch() the scheduler made
NoTimer == [launched |-> FALSE, stopped |-> FALSE, intervalId |-> 0,
            armed |-> FALSE, fetches |-> 0]

EmptyStore == [u \in Urls |-> NoRecord]

\* a store in which an earlier run of the application left a watermark
PersistedStore == [EmptyStore EXCEPT !["u1"] = [date |-> MaxDate, updatedAt |-> 1]]

\* constructor: empty registries, no timer; the configuration is the
\* application's (_defaultConfig overridden by its settings), and the store
\* is what earlier runs left.
Init ==
  /\ config \in [enableQueues : BOOLEAN, enableReadTracking : BOOLEAN,
                 feeds : ConfigFeeds, interval : Intervals]
  /\ loaded = FALSE
  /\ timer = NoTimer
  /\ feeds = [k \in {} |-> Undefined]
  /\ processors = [k \in Idents |-> <<>>]
  /\ regLog = <<>>
  /\ nregs = 0
  /\ workers = FALSE
  /\ tasks = [fetch |-> <<>>, fetchFeed |-> <<>>, processItem |-> <<>>]
  /\ feedread \in {EmptyStore, PersistedStore}
  /\ pipes = [p \in PipeIds |-> IdlePipe]
  /\ stages = <<>>
  /\ calls = <<>>
  /\ uncaught = FALSE

\* ---- registries ----

\* The options a caller may pass to feed(): none, or an object with a url
\* property of its own.
NoOptions == [k \in {} |-> "-"]
FeedOptions == { NoOptions, [k \in {"url"} |-> "u2"] }

\* Object.assign({url, ident}, options): the properties of options win
ObjectAssign(target, options) ==
  [k \in DOMAIN target |-> IF k \in DOMAIN options THEN options[k]
                                                   ELSE target[k]]

\* An assignment that clears the rest of the registry.
FeedAssignOnly(fs, ident, url, options) ==
  [k \in {ident} |-> ObjectAssign([url |-> url, ident |-> ident], options)]

\* this._feeds[ident] = Object.assign({url, ident}, options)
FeedAssign(fs, ident, url, options) ==
  [k \in (DOMAIN fs) \cup {ident} |->
     IF k = ident THEN ObjectAssign([url |-> url, ident |-> ident], options)
                  ELSE fs[k]]

\* delete this._feeds[ident]
FeedDelete(fs, ident) == [k \in (DOMAIN fs) \ {ident} |-> fs[k]]

\* this._feeds[ident]
FeedLookup(ident) == IF ident \in DOMAIN feeds THEN feeds[ident] ELSE Undefined

\* The property key an ident indexes this._processors with: a JavaScript
\* object key is a string, so the null of a wildcard registration is "null".
PropKey(ident) == IF ident = Null THEN "null" ELSE ident

\* the 'load' hook: _setupQueues when configured, then the configured feeds
Load ==
  /\ ~uncaught /\ ~loaded
  /\ loaded' = TRUE
  /\ workers' = (workers \/ config.enableQueues)
  /\ feeds' = [k \in (DOMAIN feeds) \cup (DOMAIN config.feeds) |->
                 IF k \in DOMAIN config.feeds
                   THEN FeedAssign(feeds, k, config.feeds[k], NoOptions)[k]
                   ELSE feeds[k]]
  /\ UNCHANGED <<config, timer, processors, regLog, nregs, tasks, feedread, pipes,
                 stages, calls, uncaught>>

Feed(ident, url, options) ==
  /\ ~uncaught /\ nregs < MaxRegs
  /\ feeds' = FeedAssign(feeds, ident, url, options)
  /\ nregs' = nregs + 1
  /\ UNCHANGED <<config, loaded, timer, processors, regLog, workers, tasks, feedread,
                 pipes, stages, calls, uncaught>>

Unfeed(ident) ==
  /\ ~uncaught /\ nregs < MaxRegs
  /\ feeds' = FeedDelete(feeds, ident)
  /\ nregs' = nregs + 1
  /\ UNCHANGED <<config, loaded, timer, processors, regLog, workers, tasks, feedread,
                 pipes, stages, calls, uncaught>>

\* process(ident, handler); process(handler) is Process(Null).  Handlers are
\* distinct callbacks, named by the number of their registration.
Process(ident) ==
  /\ ~uncaught /\ Len(regLog) < MaxHandlers
  /\ LET h == Len(regLog) + 1 IN
       /\ processors' = [processors EXCEPT ![PropKey(ident)] = Append(@, h)]
       /\ regLog' = Append(regLog, <<ident, h>>)
  /\ UNCHANGED <<config, loaded, timer, feeds, nregs, workers, tasks, feedread,
                 pipes, stages, calls, uncaught>>

EnableQueues ==
  /\ ~uncaught
  /\ config' = [config EXCEPT !.enableQueues = TRUE]
  /\ UNCHANGED <<loaded, timer, feeds, processors, regLog, nregs, workers, tasks,
                 feedread, pipes, stages, calls, uncaught>>

\* ---- fetch, _fetch, _fetchFeed ----

Used == Cardinality({p \in PipeIds : pipes[p].phase # "idle"})

\* Object.values(this._feeds) as a list (the pipelines are symmetric, so one
\* enumeration order stands for all).
FeedList ==
  LET n == Cardinality(DOMAIN feeds)
      f == CHOOSE g \in [1..n -> DOMAIN feeds] :
             \A i, j \in 1..n : i # j => g[i] # g[j]
  IN [i \in 1..n |-> feeds[f[i]]]

\* What _fetch passes to the fetchFeed stage: this._feeds[ident] for a truthy
\* ident, else every registered descriptor.
FetchPayloads(ident) ==
  IF ident # Null THEN <<FeedLookup(ident)>> ELSE FeedList

\* A _fetchFeed that does not await _createParser: the request is issued
\* while findOne is still out.
FetchFeedStartNoAwait(d, c) ==
  [IdlePipe EXCEPT !.phase = "request",
                   !.promise = "pending", !.url = d.url, !.ident = d.ident,
                   !.call = c, !.readTracking = config.enableReadTracking,
                   !.prior = {q \in PipeIds : pipes[q].promise = "resolved"}]

\* _fetchFeed({url, ident}) up to its first suspension: the promise exists,
\* _createParser has read config.enableReadTracking, registered its handlers
\* and, with read tracking, is awaiting findOne; without it the request is
\* issued as soon as the awaited parser is handed back.
FetchFeedStart(d, c) ==
  [IdlePipe EXCEPT !.phase = IF config.enableReadTracking THEN "lookup"
                                                          ELSE "request",
                   !.promise = "pending", !.url = d.url, !.ident = d.ident,
                   !.call = c, !.readTracking = config.enableReadTracking,
                   !.prior = {q \in PipeIds : pipes[q].promise = "resolved"}]

\* The pipelines after the fetchFeed stage ran inline for each payload of ds.
StartAll(ds, c) ==
  [p \in PipeIds |->
     IF p > Used /\ p <= Used + Len(ds) THEN FetchFeedStart(ds[p - Used], c)
     ELSE pipes[p]]

\* reject(err) / resolve() on a pipeline's promise: only a pending promise settles.
Settle(pipe, how, err) ==
  IF pipe.promise = "pending"
    THEN [pipe EXCEPT !.promise = how, !.err = err]
    ELSE pipe

\* A reject shared by the pipelines one fetch() started: the failure of one
\* ends them all.
RejectShared(ps, p, err) ==
  [q \in PipeIds |->
     IF ps[q].call = ps[p].call /\ ps[q].phase # "idle"
       THEN Settle([ps[q] EXCEPT !.phase = "dead"], "rejected", err)
       ELSE ps[q]]

\* reject(err) of pipeline p: each _fetchFeed call has a promise of its own
Reject(ps, p, err) == [ps EXCEPT ![p] = Settle(@, "rejected", err)]

\* workerQueue.task('feedreader-fetch', {ident}): the job is submitted and
\* the caller gets the promise of the submission
FetchQueued(ident) ==
  /\ tasks' = [tasks EXCEPT !.fetch =
                  Append(@, [ident |-> ident, call |-> Len(calls) + 1])]
  /\ calls' = Append(calls, [ident |-> ident, result |-> "task"])
  /\ UNCHANGED pipes

\* this._fetch({ident}) with its fetchFeed stages inline
FetchInline(ident) ==
  LET ds == FetchPayloads(ident) IN
  IF \E i \in 1..Len(ds) : ds[i] = Undefined
    \* _fetchFeed(undefined): destructuring {url, ident} throws
    THEN /\ calls' = Append(calls, [ident |-> ident, result |-> "TypeError"])
         /\ UNCHANGED <<pipes, tasks>>
    ELSE /\ Used + Len(ds) <= MaxPipes
         /\ pipes' = StartAll(ds, Len(calls) + 1)
         /\ calls' = Append(calls, [ident |-> ident, result |-> "promise"])
         /\ UNCHANGED tasks

\* A _callOrQueue that runs the stage inline whatever the configuration says.
CallFetchInline(ident) == FetchInline(ident)

\* this.fetch(ident) as any caller sees it: _callOrQueue('fetch', {ident})
CallFetch(ident) ==
  IF config.enableQueues THEN FetchQueued(ident) ELSE FetchInline(ident)

\* fetch(ident) called by the application
Fetch(ident) ==
  /\ ~uncaught /\ Len(calls) < MaxFetches
  /\ CallFetch(ident)
  /\ UNCHANGED <<config, loaded, timer, feeds, processors, regLog, nregs, workers,
                 feedread, stages, uncaught>>

\* ---- the scheduler ----

\* the 'launch' hook, _setupTimer: with a positive interval one fetch() at
\* once, then setInterval(fetch, interval * 1000)
Launch ==
  /\ ~uncaught /\ ~timer.launched
  /\ IF config.interval > 0
       THEN /\ Len(calls) < MaxFetches
            /\ CallFetch(Null)
            /\ timer' = [timer EXCEPT !.launched = TRUE, !.intervalId = 1,
                                      !.armed = TRUE, !.fetches = @ + 1]
       ELSE /\ timer' = [timer EXCEPT !.launched = TRUE]
            /\ UNCHANGED <<tasks, pipes, calls>>
  /\ UNCHANGED <<config, loaded, feeds, processors, regLog, nregs, workers,
                 feedread, stages, uncaught>>

\* the 'stop' hook: if (this._intervalId) clearInterval(this._intervalId)
Stop ==
  /\ ~uncaught /\ ~timer.stopped
  /\ timer' = [timer EXCEPT !.stopped = TRUE,
                            !.armed = IF timer.intervalId # 0 THEN FALSE
                                                              ELSE @]
  /\ UNCHANGED <<config, loaded, feeds, processors, regLog, nregs, workers,
                 tasks, feedread, pipes, stages, calls, uncaught>>

\* the interval elapses: the timer calls fetch()
Tick ==
  /\ ~uncaught /\ timer.armed
  /\ Len(calls) < MaxFetches
  /\ CallFetch(Null)
  /\ timer' = [timer EXCEPT !.fetches = @ + 1]
  /\ UNCHANGED <<config, loaded, feeds, processors, regLog, nregs, workers,
                 feedread, stages, uncaught>>

\* Each named queue hands its jobs to its worker in submission order.
\* the worker of feedreader-fetch runs _fetch(job) (queueing is enabled, so
\* its fetchFeed stages are submitted in turn)
RunFetchJob ==
  /\ ~uncaught /\ workers /\ tasks.fetch # <<>>
  /\ LET job == Head(tasks.fetch)
         ds == FetchPayloads(job.ident)
     IN tasks' = [tasks EXCEPT
                    !.fetch = Tail(@),
                    !.fetchFeed = @ \o [k \in 1..Len(ds) |->
                                          [data |-> ds[k], call |-> job.call]]]
  /\ UNCHANGED <<config, loaded, timer, feeds, processors, regLog, nregs, workers,
                 feedread, pipes, stages, calls, uncaught>>

\* the worker of feedreader-fetchFeed runs _fetchFeed(job)
RunFetchFeedJob ==
  /\ ~uncaught /\ workers /\ tasks.fetchFeed # <<>>
  /\ LET job == Head(tasks.fetchFeed) IN
       /\ tasks' = [tasks EXCEPT !.fetchFeed = Tail(@)]
       /\ IF job.data = Undefined
            THEN UNCHANGED pipes      \* the job fails with the TypeError
            ELSE /\ Used < MaxPipes
                 /\ pipes' = StartAll(<<job.data>>, job.call)
  /\ UNCHANGED <<config, loaded, timer, feeds, processors, regLog, nregs, workers,
                 feedread, stages, calls, uncaught>>

\* ---- _createParser: the per-fetch parsing context ----

\* lastRead from the record findOne returned: last.meta.date when truthy,
\* else last.updatedAt; undefined (0) without a record.
LastRead(last) ==
  IF last = NoRecord THEN 0
  ELSE IF last.date # 0 THEN last.date ELSE last.updatedAt

\* the meta handler's test: lastRead && lastRead >= meta.date
MetaSkip(lastRead, date) == lastRead # 0 /\ lastRead >= date

\* The test with its `lastRead &&` lost: an undefined lastRead is compared.
SkipItemNoLastReadTest(readTracking, skip, lastRead, item) ==
  readTracking /\ ~skip /\ item.date >= lastRead

\* The filter of the previous revision, `!skip && item.date >= lastRead` decides
\* dispatch, with its `!readTracking ||` lost: an undefined lastRead compares
\* false, so the item is left out.
SkipItemUntracked(readTracking, skip, lastRead, item) ==
  ~(~skip /\ lastRead # 0 /\ item.date >= lastRead)

\* the readable handler's test for leaving an item out:
\* readTracking && !skip && lastRead && item.date >= lastRead
SkipItem(readTracking, skip, lastRead, item) ==
  readTracking /\ ~skip /\ lastRead # 0 /\ item.date >= lastRead

\* A test that takes only server errors for bad statuses.
BadStatusServerOnly(status) == status >= 500

\* res.statusCode != 200
BadStatus(status) == status # 200

Statuses == {200, 404}

\* [].concat(this._processors[null] || []).concat(this._processors[ident] || [])
HandlersFor(ident) == processors[PropKey(Null)] \o processors[PropKey(ident)]

\* _processItem({item, ident}) up to its first await: the handler list is
\* computed and its first handler called.
ProcessItemStart(item, ident, p) ==
  LET procs == HandlersFor(ident) IN
  [pipe |-> p, item |-> item, ident |-> ident, procs |-> procs,
   pos |-> IF procs = <<>> THEN 0 ELSE 1,
   st |-> IF procs = <<>> THEN "done" ELSE "awaiting"]

\* findOne({url}) answers: lastRead is set and _fetchFeed issues the request
LookupDone(p) ==
  /\ ~uncaught /\ pipes[p].phase = "lookup"
  /\ pipes' = [pipes EXCEPT ![p].phase = "request",
                            ![p].lastRead = LastRead(feedread[pipes[p].url]),
                            ![p].found = IF feedread[pipes[p].url] = NoRecord
                                           THEN "no" ELSE "yes"]
  /\ UNCHANGED <<config, loaded, timer, feeds, processors, regLog, nregs, workers,
                 tasks, feedread, stages, calls, uncaught>>

\* findOne rejects: the async executor of _fetchFeed's promise stops there
LookupFail(p) ==
  /\ ~uncaught /\ pipes[p].phase = "lookup"
  /\ pipes' = [pipes EXCEPT ![p].phase = "dead"]
  /\ UNCHANGED <<config, loaded, timer, feeds, processors, regLog, nregs, workers,
                 tasks, feedread, stages, calls, uncaught>>

\* req.on('response'): a status other than 200 is re-emitted as an error,
\* which rejects; otherwise the body is piped into the parser
Response(p, status) ==
  /\ ~uncaught /\ pipes[p].phase = "request"
  /\ pipes' = IF BadStatus(status)
       THEN Reject([pipes EXCEPT ![p].phase = "dead", ![p].status = status],
                   p, "BadStatus")
       ELSE [pipes EXCEPT ![p].phase = "piped", ![p].status = status]
  /\ UNCHANGED <<config, loaded, timer, feeds, processors, regLog, nregs, workers,
                 tasks, feedread, stages, calls, uncaught>>

\* req.on('error', reject): a transport error, before or while the body streams
RequestError(p) ==
  /\ ~uncaught /\ pipes[p].phase \in {"request", "piped", "items"}
  /\ pipes' = Reject([pipes EXCEPT ![p].phase = "dead"], p, "Transport")
  /\ UNCHANGED <<config, loaded, timer, feeds, processors, regLog, nregs, workers,
                 tasks, feedread, stages, calls, uncaught>>

\* feedparser.on('error', reject); the parser may go on after the error
ParseError(p) ==
  /\ ~uncaught /\ pipes[p].phase \in {"piped", "items"}
  /\ pipes[p].promise = "pending"
  /\ pipes' = Reject(pipes, p, "Parse")
  /\ UNCHANGED <<config, loaded, timer, feeds, processors, regLog, nregs, workers,
                 tasks, feedread, stages, calls, uncaught>>

\* feedparser.on('meta')
Meta(p, date) ==
  /\ ~uncaught /\ pipes[p].phase = "piped"
  /\ pipes' = [pipes EXCEPT ![p].phase = "items", ![p].meta = date,
                            ![p].skip = MetaSkip(pipes[p].lastRead, date)]
  /\ UNCHANGED <<config, loaded, timer, feeds, processors, regLog, nregs, workers,
                 tasks, feedread, stages, calls, uncaught>>

\* one turn of the readable handler's loop: an item is read; on the skip
\* path this.log.debug is evaluated with this = the parser, which has no log,
\* so a TypeError leaves the handler; otherwise _callOrQueue("processItem")
ReadItem(p, item) ==
  /\ ~uncaught /\ pipes[p].phase = "items"
  /\ Len(pipes[p].emitted) < MaxItems
  /\ IF SkipItem(pipes[p].readTracking, pipes[p].skip, pipes[p].lastRead, item)
       THEN /\ pipes' = [pipes EXCEPT ![p].emitted = Append(@, item),
                                      ![p].threw = TRUE]
            /\ uncaught' = TRUE
            /\ UNCHANGED <<tasks, stages>>
       ELSE /\ pipes' = [pipes EXCEPT ![p].emitted = Append(@, item),
                                      ![p].dispatched = Append(@, item)]
            /\ IF config.enableQueues
                 THEN /\ tasks' = [tasks EXCEPT !.processItem =
                            Append(@, [item |-> item, ident |-> pipes[p].ident,
                                       pipe |-> p])]
                      /\ UNCHANGED stages
                 ELSE /\ stages' = Append(stages,
                            ProcessItemStart(item, pipes[p].ident, p))
                      /\ UNCHANGED tasks
            /\ UNCHANGED uncaught
  /\ UNCHANGED <<config, loaded, timer, feeds, processors, regLog, nregs, workers,
                 feedread, calls>>

\* feedparser.on('end'): with read tracking the upsert is awaited first
End(p) ==
  /\ ~uncaught /\ pipes[p].phase = "items"
  /\ pipes' = [pipes EXCEPT ![p] =
       IF config.enableReadTracking
         THEN [@ EXCEPT !.phase = "ending"]
         ELSE Settle([@ EXCEPT !.phase = "ended"], "resolved", "none")]
  /\ UNCHANGED <<config, loaded, timer, feeds, processors, regLog, nregs, workers,
                 tasks, feedread, stages, calls, uncaught>>

\* createOrUpdate({url}, {url, meta}) completes, then resolve()
WriteDone(p, now) ==
  /\ ~uncaught /\ pipes[p].phase = "ending"
  /\ feedread' = [feedread EXCEPT ![pipes[p].url] =
                    [date |-> pipes[p].meta, updatedAt |-> now]]
  /\ pipes' = [pipes EXCEPT ![p] =
       Settle([@ EXCEPT !.phase = "ended", !.wrote = TRUE], "resolved", "none")]
  /\ UNCHANGED <<config, loaded, timer, feeds, processors, regLog, nregs, workers,
                 tasks, stages, calls, uncaught>>

\* createOrUpdate rejects: the end handler stops before resolve()
WriteFail(p) ==
  /\ ~uncaught /\ pipes[p].phase = "ending"
  /\ pipes' = [pipes EXCEPT ![p].phase = "dead"]
  /\ UNCHANGED <<config, loaded, timer, feeds, processors, regLog, nregs, workers,
                 tasks, feedread, stages, calls, uncaught>>

\* ---- _processItem ----

\* the worker of feedreader-processItem runs _processItem(job)
RunProcessItemJob ==
  /\ ~uncaught /\ workers /\ tasks.processItem # <<>>
  /\ LET job == Head(tasks.processItem) IN
       /\ tasks' = [tasks EXCEPT !.processItem = Tail(@)]
       /\ stages' = Append(stages, ProcessItemStart(job.item, job.ident, job.pipe))
  /\ UNCHANGED <<config, loaded, timer, feeds, processors, regLog, nregs, workers,
                 feedread, pipes, calls, uncaught>>

\* `await p(item, ident)` continues: the next handler is called, or the
\* stage is done
AfterHandler(stage) ==
  IF stage.pos < Len(stage.procs)
    THEN [stage EXCEPT !.pos = @ + 1]
    ELSE [stage EXCEPT !.st = "done"]

\* A loop that catches the failure and goes on with the next handler.
AfterHandlerFailureGoesOn(stage) ==
  IF stage.pos < Len(stage.procs)
    THEN [stage EXCEPT !.pos = @ + 1]
    ELSE [stage EXCEPT !.st = "failed"]

\* the awaited handler threw or rejected: _processItem's promise rejects
AfterHandlerFailure(stage) == [stage EXCEPT !.st = "failed"]

\* The rejection thrown into the readable handler, as an awaited
\* _callOrQueue("processItem") would do.
RejectionThrown(stage) == TRUE

\* Whether that rejection is thrown anywhere: the readable handler (and the
\* queue's worker) dropped the promise _callOrQueue returned, so it is not.
RejectionEscapes(stage) == FALSE

HandlerReturns(s) ==
  /\ ~uncaught /\ s \in 1..Len(stages) /\ stages[s].st = "awaiting"
  /\ stages' = [stages EXCEPT ![s] = AfterHandler(@)]
  /\ UNCHANGED <<config, loaded, timer, feeds, processors, regLog, nregs, workers,
                 tasks, feedread, pipes, calls, uncaught>>

HandlerFails(s) ==
  /\ ~uncaught /\ s \in 1..Len(stages) /\ stages[s].st = "awaiting"
  /\ stages' = [stages EXCEPT ![s] = AfterHandlerFailure(@)]
  /\ uncaught' = RejectionEscapes(stages[s])
  /\ UNCHANGED <<config, loaded, timer, feeds, processors, regLog, nregs, workers,
                 tasks, feedread, pipes, calls>>

\* ---- next-state relations ----

RegistryNext ==
  \/ Load
  \/ \E i \in Idents, u \in Urls, o \in FeedOptions : Feed(i, u, o)
  \/ \E i \in Idents : Unfeed(i)
  \/ \E i \in Idents \cup {Null} : Process(i)
  \/ EnableQueues

FetchNext == \E i \in Idents \cup {Null} : Fetch(i)

TimerNext ==
  \/ Launch
  \/ Stop
  \/ Tick

QueueNext ==
  \/ RunFetchJob
  \/ RunFetchFeedJob
  \/ RunProcessItemJob

PipeNext ==
  \/ \E p \in PipeIds : LookupDone(p)
  \/ \E p \in PipeIds : LookupFail(p)
  \/ \E p \in PipeIds, st \in Statuses : Response(p, st)
  \/ \E p \in PipeIds : RequestError(p)
  \/ \E p \in PipeIds : ParseError(p)
  \/ \E p \in PipeIds, d \in Dates : Meta(p, d)
  \/ \E p \in PipeIds, it \in Items : ReadItem(p, it)
  \/ \E p \in PipeIds : End(p)
  \/ \E p \in PipeIds, t \in 1..MaxDate : WriteDone(p, t)
  \/ \E p \in PipeIds : WriteFail(p)

StageNext ==
  \/ \E s \in 1..(MaxPipes * MaxItems) : HandlerReturns(s)
  \/ \E s \in 1..(MaxPipes * MaxItems) : HandlerFails(s)

Next ==
  RegistryNext \/ FetchNext \/ TimerNext \/ QueueNext \/ PipeNext \/ StageNext

Spec == Init /\ [][Next]_vars

\* ---- the fetch pipelines of a loaded application with two feeds ----
\* Queueing is disabled (every stage runs inline), no handler is registered
\* and the registries stay as they are.

TwoFeeds == FeedAssign(FeedAssign([k \in {} |-> Undefined], "a", "u1", NoOptions),
                       "null", "u2", NoOptions)

InitFetch ==
  /\ config \in [enableQueues : {FALSE}, enableReadTracking : BOOLEAN,
                 feeds : {NoFeeds}, interval : {0}]
  /\ loaded = TRUE
  /\ timer = NoTimer
  /\ feeds = TwoFeeds
  /\ processors = [k \in Idents |-> <<>>]
  /\ regLog = <<>>
  /\ nregs = Cardinality(DOMAIN TwoFeeds)
  /\ workers = config.enableQueues
  /\ tasks = [fetch |-> <<>>, fetchFeed |-> <<>>, processItem |-> <<>>]
  /\ feedread \in IF config.enableReadTracking THEN {EmptyStore}
                                               ELSE {EmptyStore, PersistedStore}
  /\ pipes = [p \in PipeIds |-> IdlePipe]
  /\ stages = <<>>
  /\ calls = <<>>
  /\ uncaught = FALSE

NextFetch == FetchNext \/ PipeNext

SpecFetch == InitFetch /\ [][NextFetch]_vars

\* ---- one fetch(ident) and the handlers of its items ----

InitItems ==
  /\ config \in [enableQueues : BOOLEAN, enableReadTracking : BOOLEAN,
                 feeds : {NoFeeds}, interval : {0}]
  /\ loaded = TRUE
  /\ timer = NoTimer
  /\ feeds = TwoFeeds
  /\ processors = [k \in Idents |-> <<>>]
  /\ regLog = <<>>
  /\ nregs = Cardinality(DOMAIN TwoFeeds)
  /\ workers = config.enableQueues
  /\ tasks = [fetch |-> <<>>, fetchFeed |-> <<>>, processItem |-> <<>>]
  /\ feedread = EmptyStore
  /\ pipes = [p \in PipeIds |-> IdlePipe]
  /\ stages = <<>>
  /\ calls = <<>>
  /\ uncaught = FALSE

FetchOne(ident) == calls = <<>> /\ Fetch(ident)

NextItems ==
  \/ \E i \in Idents \cup {Null} : Process(i)
  \/ \E i \in Idents : FetchOne(i)
  \/ QueueNext
  \/ PipeNext
  \/ StageNext

SpecItems == InitItems /\ [][NextItems]_vars

\* ---- the registries and the fetch / fetchFeed stages up to each pipeline's start ----

InitRegistry == Init /\ config.interval = 0 /\ feedread = EmptyStore

NextRegistry == RegistryNext \/ FetchNext \/ RunFetchJob \/ RunFetchFeedJob

SpecRegistry == InitRegistry /\ [][NextRegistry]_vars

\* ---- the registries alone ----

SpecFeeds == InitRegistry /\ [][RegistryNext]_vars

\* ---- one single-feed pipeline with read tracking, to its end ----
\* Every event a pipeline waits for arrives: the store answers or fails, the
\* request yields a response or an error, the parser goes on to its end.

PipeStep(p) ==
  \/ LookupDone(p)
  \/ LookupFail(p)
  \/ \E st \in Statuses : Response(p, st)
  \/ RequestError(p)
  \/ ParseError(p)
  \/ \E d \in Dates : Meta(p, d)
  \/ \E it \in Items : ReadItem(p, it)
  \/ End(p)
  \/ \E t \in 1..MaxDate : WriteDone(p, t)
  \/ WriteFail(p)

InitSettle == InitFetch /\ config.enableReadTracking

NextSettle == (\E i \in Idents : FetchOne(i)) \/ PipeNext

SpecSettle ==
  /\ InitSettle /\ [][NextSettle]_vars
  /\ \A p \in PipeIds : WF_vars(PipeStep(p))

\* ---- the scheduler of a loaded application with one configured feed ----

OneFeed == [k \in {"a"} |-> "u1"]

InitTimer ==
  /\ config \in [enableQueues : BOOLEAN, enableReadTracking : {FALSE},
                 feeds : {OneFeed}, interval : Intervals]
  /\ loaded = TRUE
  /\ timer = NoTimer
  /\ feeds = FeedAssign([k \in {} |-> Undefined], "a", OneFeed["a"], NoOptions)
  /\ processors = [k \in Idents |-> <<>>]
  /\ regLog = <<>>
  /\ nregs = 0
  /\ workers = config.enableQueues
  /\ tasks = [fetch |-> <<>>, fetchFeed |-> <<>>, processItem |-> <<>>]
  /\ feedread = EmptyStore
  /\ pipes = [p \in PipeIds |-> IdlePipe]
  /\ stages = <<>>
  /\ calls = <<>>
  /\ uncaught = FALSE

NextTimer == TimerNext \/ FetchNext \/ RunFetchJob \/ RunFetchFeedJob

SpecTimer == InitTimer /\ [][NextTimer]_vars

\* ---- the claims ----

Started(p) == pipes[p].phase # "idle"

\* C1: with read tracking disabled, every item the parser emitted has
\* triggered the processItem stage exactly once and in emission order (the
\* dispatched list equals the emitted list at every moment of the fetch, so
\* also at end-of-stream), and no item event raised an error; this does not
\* depend on the watermark the store holds for the URL.
C1_DispatchedAllInOrder ==
  \A p \in PipeIds :
    (Started(p) /\ ~pipes[p].readTracking) =>
      /\ pipes[p].dispatched = pipes[p].emitted
      /\ ~pipes[p].threw

\* a fetch without read tracking ended after two different items, while the
\* store holds a watermark for its URL that is not older than either item
C1_Witness ==
  \E p \in PipeIds :
    /\ ~pipes[p].readTracking /\ pipes[p].phase = "ended"
    /\ pipes[p].promise = "resolved"
    /\ Len(pipes[p].emitted) = 2
    /\ pipes[p].emitted[1].date < pipes[p].emitted[2].date
    /\ feedread[pipes[p].url] # NoRecord
    /\ feedread[pipes[p].url].date >= pipes[p].emitted[2].date

MetaKnown(p) == pipes[p].meta # -1

Older(item, date) == item.date < date

\* C2: with read tracking, when a fetch of a URL starts after an earlier
\* fetch of the same URL has resolved, no item the earlier fetch dispatched
\* that is strictly older than the earlier fetch's metadata timestamp is
\* dispatched by the later fetch.
C2_NotDispatchedAgain ==
  \A p, q \in PipeIds :
    ( /\ p \in pipes[q].prior
      /\ pipes[p].url = pipes[q].url
      /\ pipes[p].readTracking /\ pipes[q].readTracking ) =>
      \A i \in 1..Len(pipes[p].dispatched) :
        Older(pipes[p].dispatched[i], pipes[p].meta) =>
          \A j \in 1..Len(pipes[q].dispatched) :
            pipes[q].dispatched[j] # pipes[p].dispatched[i]

\* C3: with read tracking, a fetch whose (non-null) metadata timestamp is not
\* newer than lastRead (lastRead >= meta.date) dispatches no item, and once it has ended
\* it has written the watermark with the fetched metadata.
C3_StaleFeedDispatchesNothing ==
  \A p \in PipeIds :
    ( /\ pipes[p].readTracking /\ MetaKnown(p)
      /\ pipes[p].meta > 0
      /\ pipes[p].lastRead # 0 /\ pipes[p].lastRead >= pipes[p].meta ) =>
      /\ pipes[p].dispatched = <<>>
      /\ pipes[p].phase = "ended" => pipes[p].wrote

NotOlderThan(lastRead, items) ==
  SelectSeq(items, LAMBDA it : it.date >= lastRead)

\* C4: with read tracking and a stored watermark older than the fetched
\* metadata timestamp, the items dispatched are exactly the emitted items
\* whose timestamp is not older than lastRead.
C4_DispatchedIffNotOlder ==
  \A p \in PipeIds :
    ( /\ pipes[p].readTracking /\ MetaKnown(p)
      /\ pipes[p].lastRead # 0 /\ pipes[p].lastRead < pipes[p].meta ) =>
      pipes[p].dispatched = NotOlderThan(pipes[p].lastRead, pipes[p].emitted)

\* C5: with read tracking and no watermark record for the URL when the fetch
\* looked it up, every item the parser emitted is dispatched (none is left
\* out, no item event raises), a resolved fetch has written the watermark,
\* and at the step that resolves it the store holds the fetched metadata.
C5_State ==
  \A p \in PipeIds :
    (pipes[p].readTracking /\ pipes[p].found = "no") =>
      /\ pipes[p].dispatched = pipes[p].emitted
      /\ ~pipes[p].threw
      /\ pipes[p].promise = "resolved" =>
           (pipes[p].wrote /\ feedread[pipes[p].url] # NoRecord)

C5_Step ==
  \A p \in PipeIds :
    ( /\ pipes[p].readTracking /\ pipes[p].found = "no"
      /\ pipes[p].promise = "pending" /\ pipes'[p].promise = "resolved" ) =>
      /\ feedread'[pipes[p].url] # NoRecord
      /\ feedread'[pipes[p].url].date = pipes[p].meta

C5_FirstFetchDispatchesAll == []C5_State /\ [][C5_Step]_vars

\* a first fetch of a URL resolved after dispatching two items
C5_Witness ==
  \E p \in PipeIds :
    /\ pipes[p].readTracking /\ pipes[p].found = "no"
    /\ pipes[p].promise = "resolved"
    /\ Len(pipes[p].emitted) = 2
    /\ pipes[p].emitted[1].date > pipes[p].emitted[2].date
    /\ feedread[pipes[p].url].date = pipes[p].meta

\* C8: a response whose status is not 200 rejects the pipeline with the
\* bad-status error; its body is never piped into the parser (no metadata,
\* no item), nothing is dispatched, the pipeline never writes the watermark,
\* and the step that handles the response leaves the store as it is.
C8_State ==
  \A p \in PipeIds :
    (pipes[p].status # 0 /\ pipes[p].status # 200) =>
      /\ pipes[p].promise = "rejected" /\ pipes[p].err = "BadStatus"
      /\ pipes[p].phase = "dead"
      /\ ~MetaKnown(p) /\ pipes[p].emitted = <<>> /\ pipes[p].dispatched = <<>>
      /\ ~pipes[p].wrote

C8_Step ==
  \A p \in PipeIds :
    (pipes[p].status = 0 /\ pipes'[p].status \notin {0, 200}) =>
      feedread' = feedread

C8_BadStatusRejects == []C8_State /\ [][C8_Step]_vars

\* a fetch got a 404 for a URL whose watermark an earlier fetch had written
C8_Witness ==
  \E p \in PipeIds :
    /\ pipes[p].status = 404
    /\ pipes[p].prior # {}
    /\ feedread[pipes[p].url] # NoRecord

FetchAllCalls ==
  {c \in 1..Len(calls) : calls[c].ident = Null /\ calls[c].result = "promise"}

PipesOf(c) == {p \in PipeIds : Started(p) /\ pipes[p].call = c}

Fails(p) == pipes[p].promise = "pending" /\ pipes'[p].promise = "rejected"

\* C9: an inline fetch() without ident has started exactly one pipeline for
\* every registered feed; and a step in which one pipeline fails (transport,
\* bad status or parse error) changes nothing of any other pipeline, of the
\* store or of the process, so every other pipeline goes on as it would have.
C9_State ==
  \A c \in FetchAllCalls :
    /\ {pipes[p].ident : p \in PipesOf(c)} = DOMAIN feeds
    /\ Cardinality(PipesOf(c)) = Cardinality(DOMAIN feeds)
    /\ \A p \in PipesOf(c) : pipes[p].url = feeds[pipes[p].ident].url

C9_Step ==
  \A p \in PipeIds :
    Fails(p) =>
      /\ \A q \in PipeIds \ {p} : pipes'[q] = pipes[q]
      /\ feedread' = feedread
      /\ uncaught' = uncaught

C9_FailuresIsolated == []C9_State /\ [][C9_Step]_vars

\* of the two pipelines of one fetch(), one failed and the other dispatched
\* an item, wrote its watermark and resolved
C9_Witness ==
  \E c \in FetchAllCalls : \E p, q \in PipesOf(c) :
    /\ p # q
    /\ pipes[p].promise = "rejected"
    /\ pipes[q].promise = "resolved" /\ pipes[q].wrote
    /\ pipes[q].dispatched # <<>>

\* the handlers of the process() calls made with ident argument i, in call order
RegisteredUnder(i) ==
  LET sel == SelectSeq(regLog, LAMBDA r : r[1] = i)
  IN [k \in 1..Len(sel) |-> sel[k][2]]

StageBegins == Len(stages') = Len(stages) + 1

\* C6: when a processItem stage begins for an item of the feed with ident X,
\* the handlers it is to invoke are the handlers registered without an ident,
\* in registration order, followed by the handlers registered under X, in
\* registration order, and no others; for every ident string X.
C6_HandlersOfItem ==
  [][StageBegins =>
       LET s == stages'[Len(stages')]
       IN s.procs = RegisteredUnder(Null) \o RegisteredUnder(s.ident)]_vars

\* C7: a fetch(ident) whose ident is not in the feed registry throws nothing,
\* starts no pipeline (no request is issued, nothing is dispatched) and
\* leaves the watermark store as it is.
C7_UnknownIdentIsNoOp ==
  [][\A i \in Idents :
       ( /\ Len(calls') = Len(calls) + 1
         /\ calls'[Len(calls')].ident = i
         /\ i \notin DOMAIN feeds ) =>
         /\ calls'[Len(calls')].result # "TypeError"
         /\ pipes' = pipes
         /\ feedread' = feedread
         /\ stages' = stages]_vars

HandlerFailsAt(s) ==
  /\ s \in 1..Len(stages) /\ Len(stages') = Len(stages)
  /\ stages[s].st = "awaiting" /\ stages'[s].st = "failed"

\* C10: a step in which a handler throws or rejects changes nothing of the
\* pipeline the item came from (its position in the stream, its promise, its
\* later end-of-stream write), of the other items' processItem stages or
\* submitted jobs, and raises nothing in the process; and no item of a fetch
\* without stored watermark is left undispatched, whatever its handlers did.
C10_State ==
  \A p \in PipeIds :
    Started(p) => (pipes[p].dispatched = pipes[p].emitted /\ ~pipes[p].threw)

C10_Step ==
  \A s \in 1..(MaxPipes * MaxItems) :
    HandlerFailsAt(s) =>
      /\ pipes' = pipes
      /\ feedread' = feedread
      /\ tasks' = tasks
      /\ uncaught' = uncaught
      /\ \A r \in 1..Len(stages) : r # s => stages'[r] = stages[r]

C10_HandlerFailureContained == []C10_State /\ [][C10_Step]_vars

\* a handler failed for the first item of a fetch; the handlers of its second
\* item ran to the end, and the fetch wrote the watermark and resolved
C10_Witness ==
  \E p \in PipeIds :
    /\ Len(stages) = 2 /\ stages[1].pipe = p /\ stages[2].pipe = p
    /\ Len(pipes[p].dispatched) = 2
    /\ stages[1].item = pipes[p].dispatched[1]
    /\ stages[2].item = pipes[p].dispatched[2]
    /\ stages[1].st = "failed"
    /\ stages[2].st = "done" /\ stages[2].procs # <<>>
    /\ pipes[p].wrote /\ pipes[p].promise = "resolved"

Writes(p) == ~pipes[p].wrote /\ pipes'[p].wrote

\* C11: every write at end-of-stream stores that fetch's metadata timestamp,
\* and no step replaces the (non-null) timestamp stored for a URL with an
\* older one, however the fetches of the URL follow or overlap each other.
C11_WatermarkNeverDecreases ==
  [][ /\ \A p \in PipeIds :
           Writes(p) => feedread'[pipes[p].url].date = pipes[p].meta
      /\ \A u \in Urls :
           ( /\ feedread[u] # NoRecord /\ feedread'[u] # NoRecord
             /\ feedread[u].date > 0 /\ feedread'[u].date > 0 ) =>
             feedread'[u].date >= feedread[u].date ]_vars

\* C12: a pipeline whose parser signalled an error has its promise rejected
\* with that error, and a pipeline reported failed (rejected) has not written
\* the watermark and never does.
C12_FailedFetchWritesNothing ==
  \A p \in PipeIds :
    /\ pipes[p].err = "Parse" => pipes[p].promise = "rejected"
    /\ pipes[p].promise = "rejected" => ~pipes[p].wrote

\* C13: with queueing disabled, when the promise fetch(ident) returned (the
\* pipeline's promise) is resolved, no handler invocation for an item that
\* fetch dispatched is still running: every one of its processItem stages
\* has run to its end.
C13_ResolvedAfterHandlers ==
  \A p \in PipeIds :
    (~config.enableQueues /\ pipes[p].promise = "resolved") =>
      \A s \in 1..Len(stages) :
        stages[s].pipe = p => stages[s].st # "awaiting"

FetchCalled == Len(calls') = Len(calls) + 1

FetchJobRan == Len(tasks'.fetch) < Len(tasks.fetch)

Dispatches(p) == Len(pipes'[p].dispatched) = Len(pipes[p].dispatched) + 1

\* C14: with queueing enabled, a call of fetch only appends the job
\* feedreader-fetch with its payload and returns the promise of that
\* submission, while the job is still waiting (no pipeline starts); the
\* worker of feedreader-fetch only appends the feedreader-fetchFeed jobs of
\* its payloads; a dispatched item only appends a feedreader-processItem job
\* with the item and the ident (no handler runs in that step); and nothing
\* that happens later, a failing job included, changes what a caller of fetch
\* got.
C14_Step ==
  /\ \A c \in 1..Len(calls) : calls'[c] = calls[c]
  /\ config.enableQueues =>
       /\ FetchCalled =>
            /\ calls'[Len(calls')].result = "task"
            /\ tasks'.fetch = Append(tasks.fetch,
                  [ident |-> calls'[Len(calls')].ident, call |-> Len(calls')])
            /\ tasks'.fetchFeed = tasks.fetchFeed
            /\ pipes' = pipes /\ stages' = stages
       /\ FetchJobRan =>
            /\ pipes' = pipes /\ stages' = stages
            /\ tasks'.fetchFeed = tasks.fetchFeed \o
                 [k \in 1..1 |-> [data |-> FeedLookup(Head(tasks.fetch).ident),
                                  call |-> Head(tasks.fetch).call]]
       /\ \A p \in PipeIds : Dispatches(p) =>
            /\ stages' = stages
            /\ tasks'.processItem = Append(tasks.processItem,
                  [item |-> pipes'[p].dispatched[Len(pipes'[p].dispatched)],
                   ident |-> pipes[p].ident, pipe |-> p])

C14_QueuedStagesAreSubmitted == [][C14_Step]_vars

\* fetch('a') returned the promise of its submission; the pipeline its jobs
\* started was rejected and a handler of one of its items failed
C14_Witness ==
  /\ config.enableQueues
  /\ Len(calls) = 1 /\ calls[1].result = "task"
  /\ \E p \in PipeIds : pipes[p].call = 1 /\ pipes[p].promise = "rejected"
  /\ \E s \in 1..Len(stages) : stages[s].st = "failed"

LaunchRuns == ~timer.launched /\ timer'.launched

\* C15: the launch hook with a positive interval triggers exactly one
\* fetch() without ident at once, and without one triggers none; every
\* fetch the scheduler triggers is one call of fetch(); with interval 0 the
\* scheduler never triggers a fetch; and once the stop event has been
\* handled the scheduler triggers no fetch, whether stop came after launch
\* or before it.
C15_Step ==
  /\ LaunchRuns =>
       IF config.interval > 0
         THEN /\ FetchCalled /\ calls'[Len(calls')].ident = Null
              /\ timer'.fetches = timer.fetches + 1
         ELSE ~FetchCalled
  /\ timer'.fetches # timer.fetches =>
       /\ timer'.fetches = timer.fetches + 1
       /\ FetchCalled /\ calls'[Len(calls')].ident = Null
  /\ config.interval = 0 => timer'.fetches = timer.fetches
  /\ timer.stopped => timer'.fetches = timer.fetches

C15_SchedulerFetches == [][C15_Step]_vars

\* the handlers a stage has started so far, in the order it started them
StartedHandlers(stage) == SubSeq(stage.procs, 1, stage.pos)

\* C16: a processItem stage starts its handlers one at a time in list order
\* (the wildcard list, then the ident's list): the handlers started are
\* always a prefix of the list, with the last of them the only one that may
\* be running; the stage starts its next handler only in the step in which
\* the running one completes; a step in which the running handler fails
\* starts no handler and fails the stage; and a stage that is done or failed
\* never starts another handler.
C16_State ==
  \A s \in 1..Len(stages) :
    /\ stages[s].pos \in 0..Len(stages[s].procs)
    /\ stages[s].st = "awaiting" => stages[s].pos >= 1
    /\ stages[s].st = "done" => stages[s].pos = Len(stages[s].procs)

C16_Step ==
  \A s \in 1..Len(stages) :
    /\ stages'[s].procs = stages[s].procs
    /\ StartedHandlers(stages'[s]) # StartedHandlers(stages[s]) =>
         /\ HandlerReturns(s)
         /\ StartedHandlers(stages'[s]) =
              Append(StartedHandlers(stages[s]), stages[s].procs[stages[s].pos + 1])
    /\ HandlerFails(s) =>
         /\ StartedHandlers(stages'[s]) = StartedHandlers(stages[s])
         /\ stages'[s].st = "failed"
    /\ stages[s].st \in {"done", "failed"} => stages'[s] = stages[s]

C16_HandlersRunInSequence == []C16_State /\ [][C16_Step]_vars

\* of two handlers a stage is to run (the wildcard one, then the feed's), the
\* first failed and the second was never started, while the stage of another
\* item ran both to the end
C16_Witness ==
  \E s, r \in 1..Len(stages) :
    /\ Len(stages[s].procs) = 2 /\ stages[s].procs = RegisteredUnder(Null) \o RegisteredUnder(stages[s].ident)
    /\ RegisteredUnder(Null) # <<>> /\ RegisteredUnder(stages[s].ident) # <<>>
    /\ stages[s].st = "failed" /\ stages[s].pos = 1
    /\ stages[r].procs = stages[s].procs
    /\ stages[r].st = "done" /\ stages[r].pos = 2

\* what feed(ident, url, options) is to leave under ident
Descriptor(ident, url, options) ==
  [url |-> IF "url" \in DOMAIN options THEN options["url"] ELSE url,
   ident |-> ident]

OthersKept(ident) ==
  \A k \in Idents \ {ident} :
    /\ k \in DOMAIN feeds' <=> k \in DOMAIN feeds
    /\ k \in DOMAIN feeds => feeds'[k] = feeds[k]

\* C17: a call feed(ident, url, options) leaves that call's descriptor under
\* ident, whether ident had an entry or not; a call unfeed(ident) leaves no
\* entry under ident and changes nothing when there was none; neither
\* changes the entry of another ident or the handler registry; and nothing
\* but these calls and the load hook's own feed() calls changes the feed
\* registry.  So the registry always holds, per ident, the latest feed() not
\* followed by an unfeed().
C17_Step ==
  /\ \A i \in Idents, u \in Urls, o \in FeedOptions :
       Feed(i, u, o) =>
         /\ i \in DOMAIN feeds' /\ feeds'[i] = Descriptor(i, u, o)
         /\ OthersKept(i)
         /\ processors' = processors
  /\ \A i \in Idents :
       Unfeed(i) =>
         /\ i \notin DOMAIN feeds'
         /\ i \notin DOMAIN feeds => feeds' = feeds
         /\ OthersKept(i)
         /\ processors' = processors
  /\ feeds' # feeds =>
       \/ Load
       \/ \E i \in Idents, u \in Urls, o \in FeedOptions : Feed(i, u, o)
       \/ \E i \in Idents : Unfeed(i)

C17_RegistryLastWriteWins == [][C17_Step]_vars

\* after the load hook registered the configured feed 'a', one unfeed('a')
\* and one feed('null', ...) were called: only the latter has an entry
C17_Witness ==
  /\ loaded /\ "a" \in DOMAIN config.feeds
  /\ nregs = 2
  /\ DOMAIN feeds = {"null"}
  /\ feeds["null"] = [url |-> "u2", ident |-> "null"]

Requested(p) ==
  \/ pipes[p].phase \in {"request", "piped", "items", "ending", "ended"}
  \/ pipes[p].status # 0 \/ MetaKnown(p) \/ pipes[p].emitted # <<>>

\* C18: with read tracking, a pipeline whose request has been issued (or
\* that has seen a response, metadata or an item) has its answer from the
\* store; it gets that answer once, in the step that ends the lookup, and
\* lastRead never changes afterwards; the store changes only in a step in
\* which one pipeline at end-of-stream writes, for the first time, the record
\* of its own URL, and that pipeline reads no item afterwards.  Without read
\* tracking a pipeline neither gets an answer from the store nor writes it.
C18_State ==
  \A p \in PipeIds :
    /\ (pipes[p].readTracking /\ Requested(p)) => pipes[p].found # "unknown"
    /\ pipes[p].wrote => (pipes[p].readTracking /\ pipes[p].phase = "ended")
    /\ ~pipes[p].readTracking => pipes[p].found = "unknown"

C18_Step ==
  /\ \A p \in PipeIds :
       /\ pipes[p].found # "unknown" =>
            /\ pipes'[p].found = pipes[p].found
            /\ pipes'[p].lastRead = pipes[p].lastRead
       /\ pipes'[p].found # pipes[p].found =>
            /\ pipes[p].phase = "lookup" /\ pipes'[p].phase = "request"
            /\ feedread' = feedread
       /\ pipes[p].wrote =>
            /\ pipes'[p].wrote /\ pipes'[p].emitted = pipes[p].emitted
            /\ pipes'[p].phase = "ended"
  /\ feedread' # feedread =>
       \E p \in PipeIds :
         /\ Writes(p) /\ pipes[p].phase = "ending" /\ pipes[p].readTracking
         /\ \A u \in Urls \ {pipes[p].url} : feedread'[u] = feedread[u]
         /\ \A q \in PipeIds \ {p} : pipes'[q] = pipes[q]

C18_StoreReadThenWritten == []C18_State /\ [][C18_Step]_vars

\* a fetch that found a record read two items and wrote the watermark at its end
C18_Witness ==
  \E p \in PipeIds :
    /\ pipes[p].readTracking /\ pipes[p].found = "yes"
    /\ Len(pipes[p].emitted) = 2
    /\ pipes[p].wrote /\ pipes[p].phase = "ended"

Settled(p) == pipes[p].promise \in {"resolved", "rejected"}

\* C19: every pipeline that was started eventually has its promise settled,
\* given that each event it waits for arrives, also when the answer of the
\* store to the lookup or to the write at end-of-stream is a failure.
C19_EveryPipelineSettles ==
  \A p \in PipeIds : Started(p) ~> Settled(p)

JobSubmitted ==
  \E q \in {"fetch", "fetchFeed", "processItem"} : Len(tasks'[q]) > Len(tasks[q])

\* C20: once the application is loaded, a job is submitted to the task queue
\* only when the workers of the three job names are registered, whichever
\* way queueing was enabled (the configuration option, or enableQueues()
\* before or after the load event).
C20_WorkersBeforeJobs == [][(loaded /\ JobSubmitted) => workers]_vars

\* C21: no item event raises an error: no pipeline has had its readable
\* handler left by an exception, on the dispatch path or after leaving an
\* item out as already read, and no exception has escaped into the process;
\* so a pipeline that left an item out can still reach end-of-stream.
C21_ItemEventsNeverRaise ==
  /\ \A p \in PipeIds : ~pipes[p].threw
  /\ ~uncaught

Range(seq) == {seq[k] : k \in 1..Len(seq)}

\* C22: with queueing disabled, of two items of one fetch the handlers see
\* the earlier one first: whenever a handler has been invoked with the later
\* item, it has been invoked with the earlier item too (unless the earlier
\* item's stage failed before reaching it, or was not to run it).
C22_HandlersSeeEmissionOrder ==
  ~config.enableQueues =>
    \A s, r \in 1..Len(stages) :
      ( /\ s < r /\ stages[s].pipe = stages[r].pipe
        /\ stages[s].st # "failed" ) =>
        \A h \in Range(StartedHandlers(stages[r])) :
          h \in Range(stages[s].procs) =>
            h \in Range(StartedHandlers(stages[s]))

====
